---- MODULE Spec2Model ----
(***************************************************************************)
(* A model of the label migration (migrate_labels_to_sqlite.py), of the    *)
(* similarity-search workflow driven by the test scripts of the            *)
(* repository, and of the viewer generator (create_web_viewer.py) with the *)
(* script of the page it generates.  The label store (backend.labels_db)   *)
(* and the search engine behind /api/embeddings/search-similar are not     *)
(* part of the sources; they are modelled from spec.md sections 4.4 and    *)
(* 4.5.                                                                    *)
(***************************************************************************)
EXTENDS Integers, Sequences, FiniteSets, TLC

VARIABLES
  files,            \* viewports/*_labels.json: stem -> content
  legacy0,          \* the legacy files as the user left them (never written by migrate)
  store0,           \* the label store when the current run began
  store,            \* label store: viewport -> sequence of pixel counts of its labels
  pc,               \* position of migrate(): idle, files, labels, done, returned, aborted
  run,              \* number of migrate() runs started
  queue,            \* sorted(json_files) still to be visited
  cur,              \* json_file of the current iteration (its stem)
  labels,           \* data.get('labels', []) of the current file
  idx,              \* position of the inner for loop in labels
  total_labels,     \* line 45
  total_pixels,     \* line 46
  viewport_pixels,  \* line 63
  errors,           \* line 47
  processed,        \* the files the outer loop has visited in this run, in order
  checked,          \* stem -> result of get_label_count at line 53 in this run (-1: not yet)
  opened,           \* stems whose file was opened (line 59) in this run
  saveCalls,        \* the save_label calls of this run, as <<stem, index>>, in order
  fileResult,       \* stem -> how the file's iteration ended in this run
  abortCause,       \* what ended an aborted run
  faults,           \* store failures injected so far
  edits,            \* labels the user has added to legacy files so far
  after1,           \* the store's counts and the legacy files when the first run returned
  partial,          \* stem -> the run that was stopped inside the file, and where
  esets,            \* viewport -> EmbeddingSet: the stored embedding of every pixel
  active,           \* the active viewport of the server
  script,           \* the client script that is running
  spc,              \* its position
  outcome,          \* running, done, exit1 (the script gave up), crash (uncaught exception)
  viewport_id,      \* test_full_workflow.py line 21
  embedding,        \* the embedding the extract call returned
  pixel,            \* the pixel the extract call returned
  extractVp,        \* the viewport the extract call read
  embedding2,       \* test_full_workflow.py line 50
  lastQuery,        \* embedding, threshold and viewport_id of the last search call
  lastTh,
  lastVp,
  response,         \* what the last search call returned
  results,          \* test_similarity_search.py lines 53-71: threshold -> response
  refCounts,        \* test_similarity_search.py lines 108-109: threshold -> count
  viewport,         \* what get_active_viewport() returns, or NoViewport when it raises
  gpc,              \* position of create_html_viewer: idle, output, view, sample, render
  called_with,      \* the arguments of the current call of create_html_viewer
  html_viewport_id, \* create_web_viewer.py: viewport_id (parameter, assigned at line 67)
  viewport_bounds,  \* parameter of create_html_viewer; <<>> is None or ()
  output_html,      \* lines 38, 40
  center,           \* lines 45, 64, as <<2 * lat, 2 * lon>>
  lat_extent,       \* line 50
  lon_extent,       \* line 51
  extent,           \* line 52; -1 when no bounds were supplied
  initial_zoom,     \* lines 54-65
  bounds,           \* lines 61, 66, 72
  raised,           \* the exception that ended the last call, or "none"
  written,          \* the file the last call wrote, or <<>>
  prev,             \* extent and zoom of the call before the current one
  search_body,      \* download_satellite_rgb.py line 63: "bbox", or <<>>
  page_labels,      \* the page's labels (line 242): mapId -> sequence of [lat, lon, label]
  markers,          \* the page's markers (line 248): mapId -> the keys that hold a marker
  localStorage      \* the item '<viewport_id>_labels' (lines 350, 355), or Null

migVars == <<files, legacy0, store0, store, pc, run, queue, cur, labels, idx, total_labels,
             total_pixels, viewport_pixels, errors, processed, checked, opened,
             saveCalls, fileResult, abortCause, faults, edits, after1, partial>>

searchVars == <<esets, active, script, spc, outcome, viewport_id, embedding, pixel,
                extractVp, embedding2, lastQuery, lastTh, lastVp, response, results,
                refCounts>>

viewerVars == <<viewport, gpc, called_with, html_viewport_id, viewport_bounds,
                output_html, center, lat_extent, lon_extent, extent, initial_zoom,
                bounds, raised, written, prev, search_body>>

pageVars == <<page_labels, markers, localStorage>>

vars == <<migVars, searchVars, viewerVars, pageVars>>

----------------------------------------------------------------------------
(* Bounds of the model *)

MaxLabels == 2      \* label records in the whole legacy directory
MaxRuns == 2        \* migrate() runs in one behaviour
MaxFaults == 1      \* store failures in one behaviour
MaxEdits == 1       \* labels the user adds to the legacy files in one behaviour

\* lengths of the pixel lists of the well-formed labels
PixelLens == {1, 2}

----------------------------------------------------------------------------
(* Legacy file names.  A stem is a sequence of tokens; "_labels" is the     *)
(* substring that glob matches at the end and that replace() removes.       *)

AllStems == { <<"a", "_labels">>, <<"a", "_labels", "_labels">>, <<"b", "_labels">> }

\* viewports_dir.glob('*_labels.json')
GlobMatches(stem) == Len(stem) >= 1 /\ stem[Len(stem)] = "_labels"

\* json_file.stem.replace('_labels', '')
ViewportName(stem) == SelectSeq(stem, LAMBDA t : t # "_labels")

Viewports == { ViewportName(s) : s \in AllStems }

\* character order of the first character of each token: '.' < '_' < 'a' < 'b'
Rank(t) == CASE t = ".json" -> 0 [] t = "_labels" -> 1 [] t = "a" -> 2 [] t = "b" -> 3

RECURSIVE SeqLess(_, _)
SeqLess(x, y) ==
  IF x = <<>> THEN y # <<>>
  ELSE IF y = <<>> THEN FALSE
  ELSE IF Rank(Head(x)) # Rank(Head(y)) THEN Rank(Head(x)) < Rank(Head(y))
  ELSE SeqLess(Tail(x), Tail(y))

\* the order of Path objects: by file name, stem + ".json"
PathLess(s, t) == SeqLess(s \o <<".json">>, t \o <<".json">>)

RECURSIVE Sorted(_)
Sorted(S) ==
  IF S = {} THEN <<>>
  ELSE LET m == CHOOSE x \in S : \A y \in S \ {x} : PathLess(x, y)
       IN  <<m>> \o Sorted(S \ {m})

----------------------------------------------------------------------------
(* Legacy file contents *)

OkLabels == { [kind |-> "ok", npix |-> n] : n \in PixelLens }
BadLabels == { [kind |-> "nopixels", npix |-> 0], [kind |-> "notobj", npix |-> 0] }
LabelRecs == OkLabels \cup BadLabels

LabelLists == UNION { [1..n -> LabelRecs] : n \in 0..MaxLabels }

Contents ==
  { [kind |-> k, labels |-> <<>>] : k \in {"absent", "badjson", "wrongshape"} }
  \cup { [kind |-> "labels", labels |-> l] : l \in LabelLists }

RECURSIVE SumLen(_, _)
SumLen(f, S) ==
  IF S = {} THEN 0
  ELSE LET s == CHOOSE x \in S : TRUE IN Len(f[s].labels) + SumLen(f, S \ {s})

Directories == { f \in [AllStems -> Contents] : SumLen(f, AllStems) <= MaxLabels }

\* list(viewports_dir.glob('*_labels.json'))
JsonFiles(f) == { s \in AllStems : f[s].kind # "absent" /\ GlobMatches(s) }

RECURSIVE SumSeq(_)
SumSeq(q) == IF q = <<>> THEN 0 ELSE Head(q) + SumSeq(Tail(q))

----------------------------------------------------------------------------
(* The label store (backend.labels_db), from spec.md 4.5 *)

\* get_label_count(viewport)
get_label_count(st, v) == Len(st[v])

PixelCount(st, v) == SumSeq(st[v])

\* save_label raises on a malformed record (spec.md 8, scenario D)
SaveRaises(label) == label.kind # "ok"

\* save_label(viewport, label) on a well-formed record
save_label(st, v, label) == [st EXCEPT ![v] = Append(@, label.npix)]

Counts(st) == [v \in Viewports |-> <<get_label_count(st, v), PixelCount(st, v)>>]

----------------------------------------------------------------------------
(* migrate() *)

\* end: how the iteration ended; read: the records the file held when read
NoResult == [end |-> "none", read |-> 0, saved |-> 0, errs |-> 0]

\* what the model records about a run, reset when migrate() is entered
\* run: the run that stopped inside the file (0: none); from: the first
\* record of the file that run had not passed to save_label
NoPartial == [run |-> 0, from |-> 0]

RunGhostInit ==
  /\ processed' = <<>>
  /\ checked' = [s \in AllStems |-> -1]
  /\ opened' = {}
  /\ saveCalls' = <<>>
  /\ fileResult' = [s \in AllStems |-> NoResult]
  /\ store0' = store

runGhost == <<processed, checked, opened, saveCalls, fileResult, store0>>

\* the local variables of migrate() before line 45 and after it has ended
NoLocals ==
  /\ queue' = <<>>
  /\ cur' = <<>>
  /\ labels' = <<>>
  /\ idx' = 0
  /\ total_labels' = 0
  /\ total_pixels' = 0
  /\ viewport_pixels' = 0
  /\ errors' = <<>>

\* the world outside one run: the legacy files, the budgets, the run counter
outside == <<files, legacy0, run, faults, edits>>

InitMigrate ==
  /\ files \in Directories
  /\ legacy0 = files
  /\ store = [v \in Viewports |-> <<>>]
  /\ store0 = store
  /\ pc = "idle"
  /\ run = 0
  /\ queue = <<>>
  /\ cur = <<>>
  /\ labels = <<>>
  /\ idx = 0
  /\ total_labels = 0
  /\ total_pixels = 0
  /\ viewport_pixels = 0
  /\ errors = <<>>
  /\ processed = <<>>
  /\ checked = [s \in AllStems |-> -1]
  /\ opened = {}
  /\ saveCalls = <<>>
  /\ fileResult = [s \in AllStems |-> NoResult]
  /\ abortCause = "none"
  /\ faults = 0
  /\ edits = 0
  /\ after1 = [set |-> FALSE, counts |-> Counts(store), files |-> files]
  /\ partial = [s \in AllStems |-> NoPartial]

Stopped == pc \in {"idle", "done", "returned", "aborted"}

\* line 54: if existing_count > 0
AlreadyMigratedAboveOne(existing_count) == existing_count > 1
AlreadyMigratedAlways(existing_count) == existing_count >= 0
AlreadyMigrated(existing_count) == existing_count > 0

\* line 59: open(json_file, 'r') leaves the file as it is
OpenTruncating(f, s) == [f EXCEPT ![s] = [kind |-> "badjson", labels |-> <<>>]]
OpenForRead(f, s) == f

\* line 69: len(label.get('pixels', []))
PixelsLen(label) == label.npix

\* line 71: label.get('name', 'unknown') raises when the entry is not an object
HandlerRaises(label) == label.kind = "notobj"

\* line 77: except Exception catches what the try block of lines 58-75
\* raises, the handler of line 71 included, and the outer loop goes on
OuterExceptUncaught == "aborted"
OuterExcept == "files"

\* lines 28-33, init_db() failing: the exception leaves migrate()
BeginStoreDown ==
  /\ Stopped /\ run < MaxRuns
  /\ faults < MaxFaults
  /\ faults' = faults + 1
  /\ run' = run + 1
  /\ pc' = "aborted"
  /\ abortCause' = "init_db"
  /\ RunGhostInit
  /\ NoLocals
  /\ UNCHANGED <<searchVars, viewerVars, pageVars, files, legacy0, edits, store, after1, partial>>

\* lines 28-41: no label file, migrate() returns before the loop
BeginEmpty ==
  /\ Stopped /\ run < MaxRuns
  /\ JsonFiles(files) = {}
  /\ run' = run + 1
  /\ pc' = "returned"
  /\ abortCause' = "none"
  /\ after1' = IF run = 0
               THEN [set |-> TRUE, counts |-> Counts(store), files |-> files]
               ELSE after1
  /\ RunGhostInit
  /\ NoLocals
  /\ UNCHANGED <<searchVars, viewerVars, pageVars, files, legacy0, faults, edits, store, partial>>

\* lines 28-47
Begin ==
  /\ Stopped /\ run < MaxRuns
  /\ JsonFiles(files) # {}
  /\ run' = run + 1
  /\ queue' = Sorted(JsonFiles(files))
  /\ total_labels' = 0
  /\ total_pixels' = 0
  /\ errors' = <<>>
  /\ cur' = <<>>
  /\ labels' = <<>>
  /\ idx' = 0
  /\ viewport_pixels' = 0
  /\ pc' = "files"
  /\ abortCause' = "none"
  /\ RunGhostInit
  /\ UNCHANGED <<searchVars, viewerVars, pageVars, files, legacy0, faults, edits, store, after1, partial>>

\* line 53, get_label_count() failing: the exception leaves migrate()
CountStoreDown ==
  /\ pc = "files" /\ queue # <<>>
  /\ faults < MaxFaults
  /\ faults' = faults + 1
  /\ pc' = "aborted"
  /\ abortCause' = "get_label_count"
  /\ NoLocals
  /\ UNCHANGED <<searchVars, viewerVars, pageVars, files, legacy0, run, edits, store, runGhost, after1, partial>>

\* lines 49-56: the viewport has labels in the store, the file is skipped
SkipFile ==
  /\ pc = "files" /\ queue # <<>>
  /\ LET json_file == Head(queue)
         viewport_name == ViewportName(json_file)
         existing_count == get_label_count(store, viewport_name)
     IN  /\ AlreadyMigrated(existing_count)
         /\ checked' = [checked EXCEPT ![json_file] = existing_count]
         /\ processed' = Append(processed, json_file)
         /\ fileResult' = [fileResult EXCEPT ![json_file].end = "skipped"]
  /\ queue' = Tail(queue)
  /\ UNCHANGED <<searchVars, viewerVars, pageVars, outside, store, store0, pc, cur, labels, idx, total_labels,
                 total_pixels, viewport_pixels, errors, opened, saveCalls,
                 abortCause, after1, partial>>

\* lines 49-63 and 77-79: the file is opened and parsed
OpenFile ==
  /\ pc = "files" /\ queue # <<>>
  /\ LET json_file == Head(queue)
         viewport_name == ViewportName(json_file)
         existing_count == get_label_count(store, viewport_name)
         data == files[json_file]
     IN  /\ ~AlreadyMigrated(existing_count)
         /\ checked' = [checked EXCEPT ![json_file] = existing_count]
         /\ processed' = Append(processed, json_file)
         /\ opened' = opened \cup {json_file}
         /\ files' = OpenForRead(files, json_file)
         /\ cur' = json_file
         /\ IF data.kind = "labels"
            THEN /\ labels' = data.labels
                 /\ idx' = 1
                 /\ viewport_pixels' = 0
                 /\ pc' = "labels"
                 /\ fileResult' = [fileResult EXCEPT ![json_file].read = Len(data.labels)]
                 /\ UNCHANGED errors
            ELSE \* json.load (line 60) or data.get (line 62) raises
                 /\ errors' = Append(errors, [vp |-> viewport_name, at |-> 0])
                 /\ fileResult' = [fileResult EXCEPT ![json_file].end = "error",
                                                     ![json_file].errs = @ + 1]
                 /\ pc' = OuterExcept
                 /\ UNCHANGED <<labels, idx, viewport_pixels>>
  /\ abortCause' = IF pc' = "aborted" THEN "file" ELSE abortCause
  /\ queue' = Tail(queue)
  /\ UNCHANGED <<searchVars, viewerVars, pageVars, legacy0, run, faults, edits, store, store0, total_labels,
                 total_pixels, saveCalls, after1, partial>>

\* lines 65-71 (and 77-79 when the handler of line 71 raises): one label
ImportLabel ==
  /\ pc = "labels" /\ idx <= Len(labels)
  /\ LET label == labels[idx]
         viewport_name == ViewportName(cur)
     IN  /\ saveCalls' = Append(saveCalls, <<cur, idx>>)
         /\ IF ~SaveRaises(label)
            THEN /\ store' = save_label(store, viewport_name, label)
                 /\ total_labels' = total_labels + 1
                 /\ viewport_pixels' = viewport_pixels + PixelsLen(label)
                 /\ idx' = idx + 1
                 /\ fileResult' = [fileResult EXCEPT ![cur].saved = @ + 1]
                 /\ UNCHANGED <<errors, pc>>
            ELSE IF ~HandlerRaises(label)
            THEN /\ errors' = Append(errors, [vp |-> viewport_name, at |-> idx])
                 /\ idx' = idx + 1
                 /\ fileResult' = [fileResult EXCEPT ![cur].errs = @ + 1]
                 /\ UNCHANGED <<store, total_labels, viewport_pixels, pc>>
            ELSE /\ errors' = Append(errors, [vp |-> viewport_name, at |-> 0])
                 /\ fileResult' = [fileResult EXCEPT ![cur].end = "error",
                                                     ![cur].errs = @ + 1]
                 /\ pc' = OuterExcept
                 /\ UNCHANGED <<store, total_labels, viewport_pixels, idx>>
  /\ abortCause' = IF pc' = "aborted" THEN "label" ELSE abortCause
  /\ UNCHANGED <<searchVars, viewerVars, pageVars, outside, store0, queue, cur, labels, total_pixels, processed,
                 checked, opened, after1, partial>>

\* lines 73-75: the inner loop is over
FileDone ==
  /\ pc = "labels" /\ idx > Len(labels)
  /\ total_pixels' = total_pixels + viewport_pixels
  /\ fileResult' = [fileResult EXCEPT ![cur].end = "imported"]
  /\ pc' = "files"
  /\ UNCHANGED <<searchVars, viewerVars, pageVars, outside, store, store0, queue, cur, labels, idx, total_labels,
                 viewport_pixels, errors, processed, checked, opened, saveCalls,
                 abortCause, after1, partial>>

\* lines 81-95
Summary ==
  /\ pc = "files" /\ queue = <<>>
  /\ pc' = "done"
  /\ after1' = IF run = 1
               THEN [set |-> TRUE, counts |-> Counts(store), files |-> files]
               ELSE after1
  /\ UNCHANGED <<searchVars, viewerVars, pageVars, outside, store, runGhost, queue, cur, labels, idx, total_labels,
                 total_pixels, viewport_pixels, errors, abortCause, partial>>

\* between two runs the user adds a label record to a legacy file
AddLegacyLabel ==
  /\ Stopped /\ run >= 1 /\ run < MaxRuns
  /\ edits < MaxEdits
  /\ edits' = edits + 1
  /\ \E s \in AllStems, l \in OkLabels :
       /\ files[s].kind = "labels"
       /\ files' = [files EXCEPT ![s].labels = Append(@, l)]
  /\ legacy0' = files'
  /\ UNCHANGED <<searchVars, viewerVars, pageVars, run, faults, store, runGhost, pc, queue, cur, labels, idx,
                 total_labels, total_pixels, viewport_pixels, errors, abortCause,
                 after1, partial>>

\* the process running migrate() is killed (or the machine stops) between
\* two statements; what save_label stored stays stored
Crash ==
  /\ pc \in {"files", "labels"}
  /\ faults < MaxFaults
  /\ faults' = faults + 1
  /\ pc' = "aborted"
  /\ abortCause' = "crash"
  /\ partial' = IF pc = "labels" /\ fileResult[cur].saved >= 1 /\ idx <= Len(labels)
                THEN [partial EXCEPT ![cur] = [run |-> run, from |-> idx]]
                ELSE partial
  /\ NoLocals
  /\ UNCHANGED <<searchVars, viewerVars, pageVars, files, legacy0, run, edits, store, runGhost, after1>>

\* migrate() against a store that answers every call
MigrateStep ==
  \/ BeginEmpty \/ Begin \/ SkipFile \/ OpenFile \/ ImportLabel \/ FileDone
  \/ Summary

\* the calls of lines 33 and 53 failing
StoreFailure == BeginStoreDown \/ CountStoreDown

\* repeated runs against a store that may fail
NextMigrate == MigrateStep \/ StoreFailure

\* repeated runs with the user adding labels to the legacy files in between
NextRemigrate == MigrateStep \/ AddLegacyLabel

\* repeated runs, some of them killed on the way
NextCrash == MigrateStep \/ Crash

----------------------------------------------------------------------------
(* Claims about migrate() *)

\* C1: once a first run of migrate() has returned and the legacy files are
\* as that run found them, every later run leaves the stored label count
\* and the stored pixel count of every viewport as the first run left them.
C1_MigrationIdempotent ==
  (run >= 2 /\ after1.set /\ files = after1.files) => Counts(store) = after1.counts

\* a second run has reached its summary after skipping a migrated viewport
\* and opening again a file whose viewport has no stored label
C1_Witness ==
  /\ run = 2 /\ pc = "done" /\ after1.set /\ files = after1.files
  /\ \E s \in AllStems : fileResult[s].end = "skipped"
  /\ \E s \in AllStems : s \in opened /\ fileResult[s].errs > 0

\* C2: a run is aborted only by a failure of init_db or of the count query;
\* whatever errors the records and files cause, the outer loop visits the
\* files in sorted order, a running migrate() always has a next step, and
\* the summary is reached with every file visited.
C2_RecordFailuresNeverAbort ==
  /\ pc = "aborted" => abortCause \in {"init_db", "get_label_count"}
  /\ pc \in {"files", "labels", "done"} =>
       processed \o queue = Sorted(JsonFiles(files))
  /\ pc = "done" => /\ processed = Sorted(JsonFiles(files))
                    /\ \A s \in JsonFiles(files) : fileResult[s].end # "none"
  /\ pc \in {"files", "labels"} => ENABLED MigrateStep

\* the summary is reached although the first file was unreadable or held an
\* entry that is not an object, and a later file was still imported
C2_Witness ==
  /\ pc = "done" /\ Len(processed) >= 2
  /\ fileResult[processed[1]].end = "error"
  /\ \E i \in 2..Len(processed) : fileResult[processed[i]].saved > 0

NumKind(l, K) == Cardinality({ i \in 1..Len(l) : l[i].kind \in K })

FileOver(s) ==
  fileResult[s].end \in {"imported", "error"} /\ (pc = "labels" => cur # s)

\* C3: a file of a not yet migrated viewport with k well-formed and m
\* malformed labels ends with k labels saved and m errors recorded.
C3_EveryWellFormedLabelSaved ==
  \A s \in AllStems :
    (FileOver(s) /\ checked[s] = 0 /\ files[s].kind = "labels") =>
      /\ fileResult[s].saved = NumKind(files[s].labels, {"ok"})
      /\ fileResult[s].errs = NumKind(files[s].labels, {"nopixels", "notobj"})

CallsOf(s) == { i \in 1..Len(saveCalls) : saveCalls[i][1] = s }

\* C4: a file is opened if and only if the count of its viewport was 0 when
\* checked; a skipped file is not read and causes no save_label call, and a
\* viewport all of whose files were skipped keeps its stored labels; every
\* save_label call passes one record of a file whose count was 0, no record
\* twice, and a file whose loop ran to its end had each record passed once.
C4_ImportedIffCountZero ==
  /\ \A s \in AllStems :
       /\ checked[s] >= 0 => (s \in opened <=> checked[s] = 0)
       /\ checked[s] < 0 => (s \notin opened /\ CallsOf(s) = {})
       /\ checked[s] > 0 => (fileResult[s].end = "skipped" /\ CallsOf(s) = {})
       /\ fileResult[s].end = "imported" =>
            { saveCalls[i][2] : i \in CallsOf(s) } = 1..fileResult[s].read
  /\ \A i \in 1..Len(saveCalls) :
       /\ checked[saveCalls[i][1]] = 0
       /\ saveCalls[i][2] \in 1..fileResult[saveCalls[i][1]].read
       /\ \A j \in 1..Len(saveCalls) : saveCalls[j] = saveCalls[i] => j = i
  /\ \A v \in Viewports :
       (\A s \in AllStems : ViewportName(s) = v => checked[s] # 0) =>
         store[v] = store0[v]

\* the second run has skipped a file that gained a label after the first run
C4_Witness ==
  /\ run = 2 /\ pc = "done" /\ after1.set
  /\ \E s \in AllStems :
       /\ Len(files[s].labels) > Len(after1.files[s].labels)
       /\ fileResult[s].end = "skipped"
       /\ store[ViewportName(s)] = store0[ViewportName(s)]
  /\ \E s \in AllStems : fileResult[s].end = "imported"

\* C5: no step of migrate() changes the legacy files: they are what the
\* user left, whether the run completes, skips, records errors or aborts.
C5_LegacyFilesPreserved == files = legacy0

\* a second run has ended after a skip and a recorded error
C5_Witness ==
  /\ run = 2 /\ pc = "done" /\ errors # <<>>
  /\ \E s \in AllStems : fileResult[s].end = "skipped"
  /\ \E s \in AllStems : fileResult[s].end = "imported"

\* the runs after the one that was stopped inside the file of stem s
AfterPartial(s) == partial[s].run > 0 /\ run > partial[s].run

\* C11: when a run was stopped after it had saved at least one label of a
\* file and before it had passed all of them on, the viewport's count is > 0
\* from then on, and every later run skips the file: it is not opened, none
\* of its records is passed to save_label, and the viewport's stored labels
\* stay as the stopped run left them.
C11_PartialNeverCompleted ==
  \A s \in AllStems :
    /\ partial[s].run > 0 => get_label_count(store, ViewportName(s)) > 0
    /\ AfterPartial(s) =>
         /\ checked[s] # 0
         /\ s \notin opened
         /\ CallsOf(s) = {}
         /\ checked[s] > 0 => fileResult[s].end = "skipped"
         /\ pc = "done" => fileResult[s].end = "skipped"
         /\ store[ViewportName(s)] = store0[ViewportName(s)]

\* a later run has reached its summary and skipped a file that still holds a
\* well-formed label the stopped run had not saved
C11_Witness ==
  /\ pc = "done"
  /\ \E s \in AllStems :
       /\ AfterPartial(s)
       /\ fileResult[s].end = "skipped"
       /\ \E k \in partial[s].from..Len(files[s].labels) : files[s].labels[k].kind = "ok"

InSeq(x, q) == \E i \in 1..Len(q) : q[i] = x

\* C14: two different label files that a run visits have different
\* viewport names, and the count a file is checked against is the count its
\* viewport had when the run began, whatever files were visited before it.
C14_DistinctFilesDistinctViewports ==
  /\ \A s, t \in AllStems :
       (s # t /\ InSeq(s, processed) /\ InSeq(t, processed)) =>
         ViewportName(s) # ViewportName(t)
  /\ \A s \in AllStems :
       checked[s] >= 0 => checked[s] = get_label_count(store0, ViewportName(s))

RECURSIVE SavedInRun(_)
SavedInRun(S) ==
  IF S = {} THEN 0
  ELSE LET s == CHOOSE x \in S : TRUE IN fileResult[s].saved + SavedInRun(S \ {s})

RECURSIVE PixelsStoredInRun(_)
PixelsStoredInRun(V) ==
  IF V = {} THEN 0
  ELSE LET v == CHOOSE x \in V : TRUE
       IN  (PixelCount(store, v) - PixelCount(store0, v)) + PixelsStoredInRun(V \ {v})

\* C15: at the summary total_labels is the number of save_label calls of
\* this run that succeeded, and total_pixels is the sum of the lengths of
\* the pixel lists of the labels those calls stored.
C15_SummaryCountersConsistent ==
  pc = "done" =>
    /\ total_labels = SavedInRun(AllStems)
    /\ total_pixels = PixelsStoredInRun(Viewports)

----------------------------------------------------------------------------
(* Embeddings, extract and search (spec.md 3, 4.3, 4.4, 6) *)

MaxPixels == 2      \* pixels of all EmbeddingSets together

\* an embedding component is an 8-bit value: x / 255.0
Byte == 255

SearchViewports == {"tile_aligned", "other"}

\* test_similarity_search.py line 13
VIEWPORT == "tile_aligned"

\* component values: 25/255 < 0.1 < 26/255, and 51/255 = 0.2; two
\* components of 25/255 are at distance sqrt(2) * 25/255 > 0.1
Levels == {0, 25, 51}
DimIdx == {1, 2}
Embeddings == { e \in [DimIdx -> Levels] : e[2] # 51 }

EmbeddingSetsUpTo(n) == UNION { [1..k -> Embeddings] : k \in 0..n }

RECURSIVE TotalPixels(_, _)
TotalPixels(es, V) ==
  IF V = {} THEN 0
  ELSE LET v == CHOOSE x \in V : TRUE IN Len(es[v]) + TotalPixels(es, V \ {v})

\* A JSON number x is held as 2x, so that the mean of two bytes is exact.
AsNumbers(e) == [i \in DimIdx |-> 2 * e[i]]

\* np.mean([embedding1, embedding2], axis=0).tolist()
MeanOf(e1, e2) == [i \in DimIdx |-> e1[i] + e2[i]]

\* Normalized values are held in units of 1/(4*255): a stored byte b is
\* b/255, a JSON number held as n is (n/2)/255, a threshold of k tenths is k/10.
NormStoredRaw(b) == b
NormStored(b) == 4 * b
NormNumber(n) == 2 * n
Thr(k) == (4 * Byte * k) \div 10

RECURSIVE SqSum(_, _, _)
SqSum(q, e, I) ==
  IF I = {} THEN 0
  ELSE LET i == CHOOSE x \in I : TRUE
           d == NormNumber(q[i]) - NormStored(e[i])
       IN  d * d + SqSum(q, e, I \ {i})

\* 4.4 step 3: the square of the Euclidean distance of the normalized vectors
DistSq(q, e) == SqSum(q, e, DimIdx)

\* 4.4 step 4: distance <= threshold
WithinInverted(d2, th) == th >= 0 /\ d2 >= Thr(th) * Thr(th)
Within(d2, th) == th >= 0 /\ d2 <= Thr(th) * Thr(th)

RECURSIVE Keep(_, _, _, _)
Keep(set, q, th, p) ==
  IF p > Len(set) THEN <<>>
  ELSE LET d2 == DistSq(q, set[p])
       IN  (IF Within(d2, th) THEN <<[pixel |-> p, dist2 |-> d2]>> ELSE <<>>)
             \o Keep(set, q, th, p + 1)

\* 4.4 step 6: ascending by distance, ties in index order
RECURSIVE InsertBeforeTies(_, _)
InsertBeforeTies(m, sorted) ==
  IF sorted = <<>> THEN <<m>>
  ELSE IF Head(sorted).dist2 < m.dist2
       THEN <<Head(sorted)>> \o InsertBeforeTies(m, Tail(sorted))
       ELSE <<m>> \o sorted

RECURSIVE InsertMatch(_, _)
InsertMatch(m, sorted) ==
  IF sorted = <<>> THEN <<m>>
  ELSE IF Head(sorted).dist2 <= m.dist2
       THEN <<Head(sorted)>> \o InsertMatch(m, Tail(sorted))
       ELSE <<m>> \o sorted

RECURSIVE SortMatches(_)
SortMatches(ms) ==
  IF ms = <<>> THEN <<>>
  ELSE InsertMatch(ms[Len(ms)], SortMatches(SubSeq(ms, 1, Len(ms) - 1)))

NoResponse == [success |-> FALSE, error |-> "none", matches |-> <<>>, total_pixels |-> 0]

\* 4.4: search(viewport, query_embedding, threshold)
search(set, q, th) ==
  IF set # <<>> /\ DOMAIN q # DimIdx
  THEN [success |-> FALSE, error |-> "DimensionMismatch", matches |-> <<>>,
        total_pixels |-> 0]
  ELSE [success |-> TRUE, error |-> "none",
        matches |-> SortMatches(Keep(set, q, th, 1)),
        total_pixels |-> Len(set)]

----------------------------------------------------------------------------
(* The client scripts *)

Scripts == {"search", "circles", "full", "api"}

\* test_similarity_search.py lines 51 and 108, in tenths
thresholds == <<1, 2, 3, 5, 7, 10>>

\* the thresholds the search-similar operation is called with by other clients
ApiThresholds == {-1, 0, 1, 2}

\* test_similarity_search.py line 93: np.array(embedding) / 255.0, and
\* line 94: all_embeddings / 255.0, in units of 1/(4*255)
RefNormTest(n) == (4 * n) \div 2
RefNormAll(b) == 4 * b

\* test_similarity_search.py lines 96-97: np.sum(diff ** 2, axis=1), the
\* square of a row of distances
RECURSIVE RefSqSum(_, _, _)
RefSqSum(q, e, I) ==
  IF I = {} THEN 0
  ELSE LET i == CHOOSE x \in I : TRUE
           diff == RefNormAll(e[i]) - RefNormTest(q[i])
       IN  diff * diff + RefSqSum(q, e, I \ {i})

RefDistSq(q, e) == RefSqSum(q, e, DimIdx)

\* test_similarity_search.py line 109: distances <= th
RefWithinStrict(d2, th) == th >= 0 /\ d2 < Thr(th) * Thr(th)
RefWithin(d2, th) == th >= 0 /\ d2 <= Thr(th) * Thr(th)

RefMatchSet(set, q, th) == { p \in 1..Len(set) : RefWithin(RefDistSq(q, set[p]), th) }

\* test_similarity_search.py line 109: np.sum(distances <= th)
RefCount(set, q, th) == Cardinality(RefMatchSet(set, q, th))

\* test_full_workflow.py line 75, test_similarity_circles.py line 52:
\* len(matches) / stats['total_pixels'] raises ZeroDivisionError
PercentRaises(stats_total_pixels) == stats_total_pixels = 0

InitSearch ==
  /\ esets \in { es \in [SearchViewports -> EmbeddingSetsUpTo(MaxPixels)] :
                   TotalPixels(es, SearchViewports) <= MaxPixels }
  /\ active \in SearchViewports
  /\ script \in Scripts
  /\ spc = IF script \in {"search", "api"} THEN "extract" ELSE "start"
  /\ outcome = "running"
  /\ viewport_id = "none"
  /\ embedding = <<>>
  /\ pixel = 0
  /\ extractVp = "none"
  /\ embedding2 = <<>>
  /\ lastQuery = <<>>
  /\ lastTh = 0
  /\ lastVp = "none"
  /\ response = NoResponse
  /\ results = <<>>
  /\ refCounts = <<>>

\* no client script runs
SearchOff ==
  /\ esets = [v \in SearchViewports |-> <<>>]
  /\ active = VIEWPORT
  /\ script = "none"
  /\ spc = "end"
  /\ outcome = "done"
  /\ viewport_id = "none"
  /\ embedding = <<>>
  /\ pixel = 0
  /\ extractVp = "none"
  /\ embedding2 = <<>>
  /\ lastQuery = <<>>
  /\ lastTh = 0
  /\ lastVp = "none"
  /\ response = NoResponse
  /\ results = <<>>
  /\ refCounts = <<>>

\* migrate() is not run
MigrateOff ==
  /\ files = [s \in AllStems |-> [kind |-> "absent", labels |-> <<>>]]
  /\ legacy0 = files
  /\ store = [v \in Viewports |-> <<>>]
  /\ store0 = store
  /\ pc = "idle"
  /\ run = MaxRuns
  /\ queue = <<>>
  /\ cur = <<>>
  /\ labels = <<>>
  /\ idx = 0
  /\ total_labels = 0
  /\ total_pixels = 0
  /\ viewport_pixels = 0
  /\ errors = <<>>
  /\ processed = <<>>
  /\ checked = [s \in AllStems |-> -1]
  /\ opened = {}
  /\ saveCalls = <<>>
  /\ fileResult = [s \in AllStems |-> NoResult]
  /\ abortCause = "none"
  /\ faults = 0
  /\ edits = 0
  /\ after1 = [set |-> FALSE, counts |-> Counts(store), files |-> files]
  /\ partial = [s \in AllStems |-> NoPartial]

Running == outcome = "running"

\* what a search call leaves in the state
Searched(q, th, vp) ==
  /\ lastQuery' = q
  /\ lastTh' = th
  /\ lastVp' = vp
  /\ response' = search(esets[vp], q, th)

\* test_similarity_circles.py line 21: set_active_viewport("tile_aligned")
CirclesSetActive ==
  /\ Running /\ script = "circles" /\ spc = "start"
  /\ active' = "tile_aligned"
  /\ spc' = "extract"
  /\ UNCHANGED <<migVars, viewerVars, pageVars, esets, script, outcome, viewport_id, embedding, pixel,
                 extractVp, embedding2, lastQuery, lastTh, lastVp, response,
                 results, refCounts>>

\* test_full_workflow.py lines 17-22: GET /api/viewports/current
FullGetViewport ==
  /\ Running /\ script = "full" /\ spc = "start"
  /\ viewport_id' = active
  /\ spc' = "extract"
  /\ UNCHANGED <<migVars, viewerVars, pageVars, esets, active, script, outcome, embedding, pixel,
                 extractVp, embedding2, lastQuery, lastTh, lastVp, response,
                 results, refCounts>>

\* 4.3 extract on the active viewport: the stored embedding of the pixel
\* (test_similarity_search.py 24-46, test_similarity_circles.py 24-33,
\* test_full_workflow.py 24-37)
Extract ==
  /\ Running /\ spc = "extract"
  /\ \E p \in 1..Len(esets[active]) :
       /\ embedding' = esets[active][p]
       /\ pixel' = p
  /\ extractVp' = active
  /\ spc' = IF script = "full" THEN "extract2" ELSE "search"
  /\ UNCHANGED <<migVars, viewerVars, pageVars, esets, active, script, outcome, viewport_id, embedding2,
                 lastQuery, lastTh, lastVp, response, results, refCounts>>

\* test_full_workflow.py lines 39-57: the nearby embedding and the mean
FullExtractNearby ==
  /\ Running /\ script = "full" /\ spc = "extract2"
  /\ \E p \in 1..Len(esets[active]) : embedding2' = esets[active][p]
  /\ spc' = "search"
  /\ UNCHANGED <<migVars, viewerVars, pageVars, esets, active, script, outcome, viewport_id, embedding,
                 pixel, extractVp, lastQuery, lastTh, lastVp, response, results,
                 refCounts>>

\* extract answers success: false (OutOfBounds, MissingIndex): exit(1)
ExtractFails ==
  /\ Running /\ spc \in {"extract", "extract2"} /\ script # "api"
  /\ outcome' = "exit1"
  /\ spc' = "end"
  /\ UNCHANGED <<migVars, viewerVars, pageVars, esets, active, script, viewport_id, embedding, pixel,
                 extractVp, embedding2, lastQuery, lastTh, lastVp, response,
                 results, refCounts>>

\* test_similarity_search.py lines 53-77: one threshold of the sweep; the
\* response to an embedding that extract returned is a success, so that the
\* continue of line 67 is not taken
SweepSearch ==
  /\ Running /\ script = "search" /\ spc = "search"
  /\ Len(results) < Len(thresholds)
  /\ Searched(AsNumbers(embedding), thresholds[Len(results) + 1], VIEWPORT)
  /\ results' = Append(results, response')
  /\ UNCHANGED <<migVars, viewerVars, pageVars, esets, active, script, spc, outcome, viewport_id,
                 embedding, pixel, extractVp, embedding2, refCounts>>

\* test_similarity_search.py lines 79-118: the reference counts; on an
\* empty array distances.min() raises and line 113 catches it
SweepReference ==
  /\ Running /\ script = "search" /\ spc = "search"
  /\ Len(results) = Len(thresholds)
  /\ refCounts' =
       IF esets[VIEWPORT] = <<>> THEN <<>>
       ELSE [i \in 1..Len(thresholds) |->
               RefCount(esets[VIEWPORT], AsNumbers(embedding), thresholds[i])]
  /\ outcome' = "done"
  /\ spc' = "end"
  /\ UNCHANGED <<migVars, viewerVars, pageVars, esets, active, script, viewport_id, embedding, pixel,
                 extractVp, embedding2, lastQuery, lastTh, lastVp, response,
                 results>>

\* what follows the search call in test_similarity_circles.py (43-52) and
\* test_full_workflow.py (66-75)
Report ==
  /\ outcome' = IF ~response'.success THEN "exit1"
                ELSE IF PercentRaises(response'.total_pixels) THEN "crash"
                ELSE "running"
  /\ spc' = IF outcome' = "running" THEN "report" ELSE "end"

\* test_similarity_circles.py lines 35-52
CirclesSearch ==
  /\ Running /\ script = "circles" /\ spc = "search"
  /\ Searched(AsNumbers(embedding), 1, "tile_aligned")
  /\ Report
  /\ UNCHANGED <<migVars, viewerVars, pageVars, esets, active, script, viewport_id, embedding, pixel,
                 extractVp, embedding2, results, refCounts>>

\* test_full_workflow.py lines 59-75
FullSearch ==
  /\ Running /\ script = "full" /\ spc = "search"
  /\ Searched(MeanOf(embedding, embedding2), 1, viewport_id)
  /\ Report
  /\ UNCHANGED <<migVars, viewerVars, pageVars, esets, active, script, viewport_id, embedding, pixel,
                 extractVp, embedding2, results, refCounts>>

\* test_similarity_circles.py lines 54-76, test_full_workflow.py lines 77-94
ShowMatches ==
  /\ Running /\ spc = "report"
  /\ outcome' = "done"
  /\ spc' = "end"
  /\ UNCHANGED <<migVars, viewerVars, pageVars, esets, active, script, viewport_id, embedding, pixel,
                 extractVp, embedding2, lastQuery, lastTh, lastVp, response,
                 results, refCounts>>

\* 6: search-similar called with the extracted embedding on the active viewport
ApiSearch ==
  /\ Running /\ script = "api" /\ spc = "search"
  /\ \E th \in ApiThresholds : Searched(AsNumbers(embedding), th, active)
  /\ outcome' = "done"
  /\ spc' = "end"
  /\ UNCHANGED <<migVars, viewerVars, pageVars, esets, active, script, viewport_id, embedding, pixel,
                 extractVp, embedding2, results, refCounts>>

\* 4.1: another client activates a viewport while the script runs
OtherClientActivates ==
  /\ Running
  /\ \E v \in SearchViewports \ {active} : active' = v
  /\ UNCHANGED <<migVars, viewerVars, pageVars, esets, script, spc, outcome, viewport_id, embedding,
                 pixel, extractVp, embedding2, lastQuery, lastTh, lastVp, response,
                 results, refCounts>>

NextSearch ==
  \/ CirclesSetActive \/ FullGetViewport \/ Extract \/ FullExtractNearby
  \/ ExtractFails \/ SweepSearch \/ SweepReference \/ CirclesSearch \/ FullSearch
  \/ ShowMatches \/ ApiSearch \/ OtherClientActivates

----------------------------------------------------------------------------
(* Claims about search *)

PixelsOf(resp) == { resp.matches[i].pixel : i \in 1..Len(resp.matches) }

AllThresholds == ApiThresholds \cup { thresholds[i] : i \in 1..Len(thresholds) }

\* the least threshold above t
NextThreshold(t) ==
  CHOOSE u \in AllThresholds :
    u > t /\ \A w \in AllThresholds : w > t => u <= w

MatchesGrow(r1, r2) ==
  /\ \A i \in 1..Len(r1.matches) :
       \E j \in 1..Len(r2.matches) : r2.matches[j].pixel = r1.matches[i].pixel
  /\ Len(r1.matches) <= Len(r2.matches)

\* C6: for one query and one EmbeddingSet the matches of a smaller
\* threshold are among the matches of a larger one, and are not more: for
\* every two results of the threshold sweep, and, on the query and viewport
\* of the last search call, from each threshold to the next larger one
\* (hence, both relations being transitive, for any two thresholds).
C6_ThresholdMonotone ==
  /\ \A i, j \in 1..Len(results) :
       (thresholds[i] < thresholds[j] /\ results[i].success /\ results[j].success) =>
         /\ PixelsOf(results[i]) \subseteq PixelsOf(results[j])
         /\ Len(results[i].matches) <= Len(results[j].matches)
  /\ lastVp # "none" =>
       \A t1 \in AllThresholds :
         (\E u \in AllThresholds : u > t1) =>
           MatchesGrow(search(esets[lastVp], lastQuery, t1),
                       search(esets[lastVp], lastQuery, NextThreshold(t1)))

\* the sweep has ended and 0.2 matched more pixels than 0.1, which matched some
C6_Witness ==
  /\ script = "search" /\ outcome = "done"
  /\ Len(results[1].matches) >= 1
  /\ Len(results[1].matches) < Len(results[2].matches)

\* the last search call was given the embedding that extract returned for
\* the pixel, on the viewport extract read
SelfQuery ==
  /\ response.success
  /\ embedding # <<>>
  /\ lastVp = extractVp
  /\ lastQuery = AsNumbers(embedding)

\* C7: a search with the embedding extracted for pixel P as the query, at
\* threshold 0 (and at any threshold above), returns P with distance 0; at
\* threshold 0 every match has distance 0.
C7_SelfMatch ==
  /\ (SelfQuery /\ lastTh >= 0) =>
       \E i \in 1..Len(response.matches) :
         response.matches[i].pixel = pixel /\ response.matches[i].dist2 = 0
  /\ (response.success /\ lastTh <= 0) =>
       \A i \in 1..Len(response.matches) : response.matches[i].dist2 = 0

\* a search at threshold 0 returned the extracted pixel and left out another
C7_Witness ==
  /\ script = "api" /\ outcome = "done" /\ SelfQuery /\ lastTh = 0
  /\ pixel \in PixelsOf(response)
  /\ Len(response.matches) < response.total_pixels

AgreesWithReference(resp, set, q, th) ==
  /\ PixelsOf(resp) = RefMatchSet(set, q, th)
  /\ Len(resp.matches) = RefCount(set, q, th)
  /\ \A i \in 1..Len(resp.matches) :
       resp.matches[i].dist2 = RefDistSq(q, set[resp.matches[i].pixel])

\* C8: the matches of a search are the pixels whose distance in the
\* reference computation (both sides divided by 255) is <= the threshold,
\* the boundary included, and the match count is the reference count.
C8_MatchesEqualReference ==
  /\ (lastVp # "none" /\ response.success) =>
       AgreesWithReference(response, esets[lastVp], lastQuery, lastTh)
  /\ \A i \in 1..Len(results) :
       results[i].success =>
         AgreesWithReference(results[i], esets[VIEWPORT], AsNumbers(embedding),
                             thresholds[i])
  /\ \A i \in 1..Len(refCounts) : refCounts[i] = Len(results[i].matches)

\* the sweep has ended with reference counts, and a pixel at exactly the
\* threshold's distance was matched
C8_Witness ==
  /\ script = "search" /\ outcome = "done" /\ refCounts # <<>>
  /\ \E i \in 1..Len(results) : \E p \in PixelsOf(results[i]) :
       RefDistSq(AsNumbers(embedding), esets[VIEWPORT][p])
         = Thr(thresholds[i]) * Thr(thresholds[i])
  /\ \E i \in 1..Len(results) : Len(results[i].matches) < results[i].total_pixels

SortedByDistance(resp, set, q) ==
  /\ \A i, j \in 1..Len(resp.matches) :
       i < j =>
         \/ resp.matches[i].dist2 < resp.matches[j].dist2
         \/ /\ resp.matches[i].dist2 = resp.matches[j].dist2
            /\ resp.matches[i].pixel < resp.matches[j].pixel
  /\ resp.matches # <<>> =>
       \A p \in 1..Len(set) : resp.matches[1].dist2 <= DistSq(q, set[p])

\* C9: the matches are in ascending order of distance, equal distances in
\* the order of their index, and the first match is as near to the query as
\* any pixel of the EmbeddingSet.
C9_MatchesSorted ==
  /\ (lastVp # "none" /\ response.success) =>
       SortedByDistance(response, esets[lastVp], lastQuery)
  /\ \A i \in 1..Len(results) :
       results[i].success =>
         SortedByDistance(results[i], esets[VIEWPORT], AsNumbers(embedding))

\* a search returned two matches at the same distance
C9_Witness ==
  /\ response.success /\ Len(response.matches) >= 2
  /\ response.matches[1].dist2 = response.matches[2].dist2

\* C10: a search on an empty EmbeddingSet returns success, no match and
\* total_pixels = 0, and the script that called it does not fail.
C10_EmptySetIsNoError ==
  (lastVp # "none" /\ esets[lastVp] = <<>>) =>
    /\ response.success
    /\ response.matches = <<>>
    /\ response.total_pixels = 0
    /\ outcome # "crash"

----------------------------------------------------------------------------
(* create_web_viewer.py: create_html_viewer and __main__, and the other     *)
(* reader of the active viewport's bounds, download_satellite_rgb.py.       *)
(* Degrees are held in hundredths.                                          *)

None == "None"

\* viewer ids of the registry (spec.md 3)
ViewportIds == {"tile_aligned"}

\* bounds_tuple of a viewport, (south, west, north, east) in hundredths of
\* a degree: extents 4, 5, 9, 10, 19, 20 and 21
BoundsTuples ==
  { <<0, 1, n, e>> : n \in {4, 5, 10, 20}, e \in {5, 10, 20, 22} }

NoViewport == [viewport_id |-> None, bounds_tuple |-> <<>>]

ActiveViewports ==
  { [viewport_id |-> i, bounds_tuple |-> b] : i \in ViewportIds, b \in BoundsTuples }

\* line 33: the arguments create_html_viewer can be called with
CallArguments ==
  { [viewport_id |-> i, viewport_bounds |-> b] :
      i \in ViewportIds \cup {None}, b \in BoundsTuples \cup {<<>>} }

\* lines 37 and 43: the truth value of an argument
IdGiven(id) == id # None
BoundsGiven(b) == b # <<>>

\* lines 38 and 40
ViewerFile(id) == <<id, "_viewer.html">>

\* lines 53-60, the thresholds 0.05, 0.1 and 0.2 in hundredths
ZoomForInclusive(e) == IF e <= 5 THEN 15 ELSE IF e <= 10 THEN 14 ELSE IF e <= 20 THEN 13 ELSE 12
ZoomFor(e) == IF e < 5 THEN 15 ELSE IF e < 10 THEN 14 ELSE IF e < 20 THEN 13 ELSE 12

Max(a, b) == IF a >= b THEN a ELSE b

\* lines 64-66: the default view; [12.97, 77.59], 12, [[12.83, 77.46], [13.14, 77.78]]
DefaultCenter == <<2 * 1297, 2 * 7759>>
DefaultZoom == 12
DefaultBounds == <<<<1283, 7746>>, <<1314, 7778>>>>

\* lines 24-31: the bounds of the sample image, when it exists
SampleBounds == <<<<1280, 7740>>, <<1320, 7780>>>>

\* the names the module defines (lines 7-33) and the names that are local
\* to create_html_viewer when line 77 is evaluated
ModuleNames ==
  { "sys", "json", "Path", "base64", "Image", "rasterio", "transform_bounds",
    "get_active_viewport", "DATA_DIR", "PYRAMIDS_DIR", "YEARS", "get_image_bounds",
    "create_html_viewer" }
LocalNames ==
  { "viewport_id", "viewport_bounds", "output_html", "center", "initial_zoom",
    "bounds", "sample_img", "lat_extent", "lon_extent", "extent" }

\* the names the f-string of lines 77-400 evaluates, in order (lines 81,
\* 237, 238, 239, 350, 355)
TemplateNames ==
  <<"viewport_id", "CENTER", "INITIAL_ZOOM", "bounds", "viewport_id", "viewport_id">>

\* the exception the evaluation of the f-string ends in, from placeholder i on
RECURSIVE FormatRaises(_, _)
FormatRaises(i, id) ==
  IF i > Len(TemplateNames) THEN "none"
  ELSE IF TemplateNames[i] \notin (ModuleNames \cup LocalNames) THEN "NameError"
  ELSE IF i = 1 /\ id = None THEN "AttributeError"    \* line 81: None.title()
  ELSE FormatRaises(i + 1, id)

ViewerOff ==
  /\ viewport = NoViewport
  /\ gpc = "off"
  /\ called_with = [viewport_id |-> None, viewport_bounds |-> <<>>]
  /\ html_viewport_id = None
  /\ viewport_bounds = <<>>
  /\ output_html = <<>>
  /\ center = <<>>
  /\ lat_extent = 0
  /\ lon_extent = 0
  /\ extent = -1
  /\ initial_zoom = 0
  /\ bounds = <<>>
  /\ raised = "none"
  /\ written = <<>>
  /\ prev = [extent |-> -1, zoom |-> 0]
  /\ search_body = <<>>

InitViewer ==
  /\ viewport \in ActiveViewports \cup {NoViewport}
  /\ gpc = "idle"
  /\ called_with = [viewport_id |-> None, viewport_bounds |-> <<>>]
  /\ html_viewport_id = None
  /\ viewport_bounds = <<>>
  /\ output_html = <<>>
  /\ center = <<>>
  /\ lat_extent = 0
  /\ lon_extent = 0
  /\ extent = -1
  /\ initial_zoom = 0
  /\ bounds = <<>>
  /\ raised = "none"
  /\ written = <<>>
  /\ prev = [extent |-> -1, zoom |-> 0]
  /\ search_body = <<>>

\* the locals of create_html_viewer when it is entered
Enter(args) ==
  /\ called_with' = args
  /\ html_viewport_id' = args.viewport_id
  /\ viewport_bounds' = args.viewport_bounds
  /\ output_html' = <<>>
  /\ center' = <<>>
  /\ lat_extent' = 0
  /\ lon_extent' = 0
  /\ extent' = -1
  /\ bounds' = <<>>
  /\ raised' = "none"
  /\ written' = <<>>
  /\ prev' = [extent |-> extent, zoom |-> initial_zoom]
  /\ initial_zoom' = 0
  /\ gpc' = "output"

\* lines 410-422: the arguments come from the active viewport, or are None
\* when get_active_viewport raises
ViewerMain ==
  /\ gpc = "idle"
  /\ Enter([viewport_id |-> viewport.viewport_id,
            viewport_bounds |-> viewport.bounds_tuple])
  /\ UNCHANGED <<migVars, searchVars, pageVars, viewport, search_body>>

\* line 33: create_html_viewer called by an importer of the module
ViewerCall ==
  /\ gpc = "idle"
  /\ \E args \in CallArguments : Enter(args)
  /\ UNCHANGED <<migVars, searchVars, pageVars, viewport, search_body>>

\* lines 36-40
ChooseOutput ==
  /\ gpc = "output"
  /\ output_html' = IF IdGiven(html_viewport_id) THEN ViewerFile(html_viewport_id)
                    ELSE ViewerFile("bangalore")
  /\ gpc' = "view"
  /\ UNCHANGED <<migVars, searchVars, pageVars, viewport, called_with, html_viewport_id,
                 viewport_bounds, center, lat_extent, lon_extent, extent,
                 initial_zoom, bounds, raised, written, prev, search_body>>

\* lines 42-67
ComputeView ==
  /\ gpc = "view"
  /\ IF BoundsGiven(viewport_bounds)
     THEN /\ center' = <<viewport_bounds[1] + viewport_bounds[3],
                         viewport_bounds[2] + viewport_bounds[4]>>
          /\ lat_extent' = viewport_bounds[3] - viewport_bounds[1]
          /\ lon_extent' = viewport_bounds[4] - viewport_bounds[2]
          /\ extent' = Max(lat_extent', lon_extent')
          /\ initial_zoom' = ZoomFor(extent')
          /\ bounds' = <<<<viewport_bounds[1], viewport_bounds[2]>>,
                         <<viewport_bounds[3], viewport_bounds[4]>>>>
          /\ UNCHANGED html_viewport_id
     ELSE /\ center' = DefaultCenter
          /\ initial_zoom' = DefaultZoom
          /\ bounds' = DefaultBounds
          /\ html_viewport_id' = "bangalore"
          /\ UNCHANGED <<lat_extent, lon_extent, extent>>
  /\ gpc' = "sample"
  /\ UNCHANGED <<migVars, searchVars, pageVars, viewport, called_with, viewport_bounds,
                 output_html, raised, written, prev, search_body>>

\* lines 69-75: the bounds of the sample image replace the computed ones
\* when the image exists
SampleImage ==
  /\ gpc = "sample"
  /\ \E exists \in BOOLEAN : bounds' = IF exists THEN SampleBounds ELSE bounds
  /\ gpc' = "render"
  /\ UNCHANGED <<migVars, searchVars, pageVars, viewport, called_with, html_viewport_id,
                 viewport_bounds, output_html, center, lat_extent, lon_extent,
                 extent, initial_zoom, raised, written, prev, search_body>>

\* lines 77-408: the page is formatted, then written
RenderAndWrite ==
  /\ gpc = "render"
  /\ raised' = FormatRaises(1, html_viewport_id)
  /\ written' = IF raised' = "none" THEN output_html ELSE <<>>
  /\ gpc' = "idle"
  /\ UNCHANGED <<migVars, searchVars, pageVars, viewport, called_with, html_viewport_id,
                 viewport_bounds, output_html, center, lat_extent, lon_extent,
                 extent, initial_zoom, bounds, prev, search_body>>

\* download_satellite_rgb.py lines 28-64: the search box of the active
\* viewport, [lon_min, lat_min, lon_max, lat_max]; no search without one
DownloadSatellite ==
  /\ gpc = "idle"
  /\ search_body = <<>>
  /\ viewport # NoViewport
  /\ LET BBOX == viewport.bounds_tuple
         lon_min == BBOX[1]
         lat_min == BBOX[2]
         lon_max == BBOX[3]
         lat_max == BBOX[4]
     IN  search_body' = <<lon_min, lat_min, lon_max, lat_max>>
  /\ UNCHANGED <<migVars, searchVars, pageVars, viewport, gpc, called_with, html_viewport_id,
                 viewport_bounds, output_html, center, lat_extent, lon_extent,
                 extent, initial_zoom, bounds, raised, written, prev>>

NextViewer ==
  \/ ViewerMain \/ ViewerCall \/ ChooseOutput \/ ComputeView \/ SampleImage
  \/ RenderAndWrite \/ DownloadSatellite

----------------------------------------------------------------------------
(* Claims about create_html_viewer *)

\* a call of create_html_viewer has ended
CallEnded == gpc = "idle" /\ output_html # <<>>

\* lines 42-67 of the current call have been executed
ViewComputed == gpc \in {"sample", "render", "idle"} /\ center # <<>>

\* C12: every call of create_html_viewer ends with the viewer file written,
\* '<viewport_id>_viewer.html' when an id was passed and
\* 'bangalore_viewer.html' when none was, and with no exception.
C12_ViewerFileWritten ==
  CallEnded =>
    /\ raised = "none"
    /\ written = ViewerFile(IF called_with.viewport_id # None
                            THEN called_with.viewport_id ELSE "bangalore")

\* C13: with bounds the zoom is 15, 14, 13 or 12 as extent = max(latitude
\* extent, longitude extent) is below 0.05, below 0.1, below 0.2 or not;
\* without bounds it is 12; it is in 12..15, and of two calls the one with
\* the larger extent never has the larger zoom.
C13_ZoomFromExtent ==
  ViewComputed =>
    /\ initial_zoom \in 12..15
    /\ ~BoundsGiven(called_with.viewport_bounds) => initial_zoom = 12
    /\ BoundsGiven(called_with.viewport_bounds) =>
         LET b == called_with.viewport_bounds IN
         /\ extent = Max(b[3] - b[1], b[4] - b[2])
         /\ extent < 5 => initial_zoom = 15
         /\ (5 <= extent /\ extent < 10) => initial_zoom = 14
         /\ (10 <= extent /\ extent < 20) => initial_zoom = 13
         /\ 20 <= extent => initial_zoom = 12
    /\ (prev.extent >= 0 /\ extent >= 0) =>
         /\ prev.extent <= extent => prev.zoom >= initial_zoom
         /\ extent <= prev.extent => initial_zoom >= prev.zoom

\* a call with extent 0.05 got zoom 14 after a call with extent 0.04 got 15
C13_Witness ==
  /\ ViewComputed
  /\ extent = 5 /\ initial_zoom = 14
  /\ prev.extent = 4 /\ prev.zoom = 15

\* C17: the viewer and the imagery download read the bounds tuple of the
\* active viewport alike: the center and the extents of the map are those
\* of the search box [west, south, east, north] of the download.
C17_SameBoundsOrder ==
  (/\ ViewComputed
   /\ search_body # <<>>
   /\ viewport # NoViewport
   /\ called_with.viewport_bounds = viewport.bounds_tuple) =>
    /\ center = <<search_body[2] + search_body[4], search_body[1] + search_body[3]>>
    /\ lat_extent = search_body[4] - search_body[2]
    /\ lon_extent = search_body[3] - search_body[1]

----------------------------------------------------------------------------
(* The script of the viewer page (create_web_viewer.py lines 236-398).      *)
(* A coordinate is held in units of 0.00005 degrees.                        *)

\* line 255, two of the nine maps
mapIds == {"2017", "satellite"}

\* the points a click can hit: 0.00005 and 0.0002 degrees north of the first
ClickPoints == { <<0, 0>>, <<1, 0>>, <<4, 0>> }

\* line 275: the text of the label input, 'unlabeled' when it is empty
InputLabels == {"building"}

\* line 336: 0.0001 degrees
Tolerance == 2

Null == [m \in {} |-> <<>>]

NoLabels == [m \in mapIds |-> <<>>]
NoMarkers == [m \in mapIds |-> {}]

Abs(x) == IF x < 0 THEN -x ELSE x

\* line 336: the entries the filter of removeMarker keeps
Kept(e, lat, lon) == Abs(e.lat - lat) > Tolerance \/ Abs(e.lon - lon) > Tolerance

\* lines 327-342, on the state st = [labels, markers]
removeMarker(st, mapId, lat, lon) ==
  LET key == <<lat, lon>> IN
  IF key \in st.markers[mapId]
  THEN [markers |-> [st.markers EXCEPT ![mapId] = @ \ {key}],
        labels |-> [st.labels EXCEPT
                      ![mapId] = SelectSeq(@, LAMBDA e : Kept(e, lat, lon))]]
  ELSE st

\* lines 306-325
addMarker(st, mapId, lat, lon, label) ==
  LET key == <<lat, lon>> IN
  IF key \in st.markers[mapId]
  THEN removeMarker(st, mapId, lat, lon)
  ELSE [markers |-> [st.markers EXCEPT ![mapId] = @ \cup {key}],
        labels |-> [st.labels EXCEPT
                      ![mapId] = Append(@, [lat |-> lat, lon |-> lon, label |-> label])]]

\* lines 359-361: the entries of one map of the stored labels, in order
RECURSIVE loadEntries(_, _, _)
loadEntries(st, mapId, entries) ==
  IF entries = <<>> THEN st
  ELSE LET e == Head(entries)
       IN  loadEntries(addMarker(st, mapId, e.lat, e.lon, e.label), mapId, Tail(entries))

\* lines 358-362: every map of the stored labels
RECURSIVE loadMaps(_, _, _)
loadMaps(st, loaded, M) ==
  IF M = {} THEN st
  ELSE LET mapId == CHOOSE x \in M : TRUE
       IN  loadMaps(loadEntries(st, mapId, loaded[mapId]), loaded, M \ {mapId})

\* lines 354-365
loadLabels(st, stored) ==
  IF stored # Null THEN loadMaps(st, stored, DOMAIN stored) ELSE st

PageState == [labels |-> page_labels, markers |-> markers]

Becomes(st) == page_labels' = st.labels /\ markers' = st.markers

PageOff ==
  /\ page_labels = NoLabels
  /\ markers = NoMarkers
  /\ localStorage = Null

\* lines 242-248 and 280, and lines 395-397 with nothing stored
InitPage ==
  /\ page_labels = NoLabels
  /\ markers = NoMarkers
  /\ localStorage = Null

\* lines 274-277: a click on a map
Click ==
  /\ \E mapId \in mapIds, p \in ClickPoints, label \in InputLabels :
       Becomes(addMarker(PageState, mapId, p[1], p[2], label))
  /\ UNCHANGED <<migVars, searchVars, viewerVars, localStorage>>

\* lines 327-342: removeMarker called for a point
RemoveMarker ==
  /\ \E mapId \in mapIds, p \in ClickPoints :
       Becomes(removeMarker(PageState, mapId, p[1], p[2]))
  /\ UNCHANGED <<migVars, searchVars, viewerVars, localStorage>>

\* lines 349-352
SaveLabels ==
  /\ localStorage' = page_labels
  /\ UNCHANGED <<migVars, searchVars, viewerVars, page_labels, markers>>

\* lines 354-365: loadLabels called on the page as it is
LoadLabels ==
  /\ Becomes(loadLabels(PageState, localStorage))
  /\ UNCHANGED <<migVars, searchVars, viewerVars, localStorage>>

\* the page is loaded again: lines 242-286, then lines 395-397
Reload ==
  /\ Becomes(loadLabels([labels |-> NoLabels, markers |-> NoMarkers], localStorage))
  /\ UNCHANGED <<migVars, searchVars, viewerVars, localStorage>>

\* lines 367-380
ClearAllLabels ==
  /\ \E confirm \in BOOLEAN :
       IF confirm THEN Becomes([labels |-> NoLabels, markers |-> NoMarkers])
       ELSE UNCHANGED <<page_labels, markers>>
  /\ UNCHANGED <<migVars, searchVars, viewerVars, localStorage>>

NextPage ==
  \/ Click \/ RemoveMarker \/ SaveLabels \/ LoadLabels \/ Reload \/ ClearAllLabels

\* the entries of a map's labels that are at a marker's point
EntriesAt(mapId, key) ==
  { i \in 1..Len(page_labels[mapId]) :
      <<page_labels[mapId][i].lat, page_labels[mapId][i].lon>> = key }

\* C16: on every map the labels and the markers have the same size, and
\* every marker's point has exactly one label entry.
C16_LabelsMatchMarkers ==
  \A mapId \in mapIds :
    /\ Len(page_labels[mapId]) = Cardinality(markers[mapId])
    /\ \A key \in markers[mapId] : Cardinality(EntriesAt(mapId, key)) = 1

----------------------------------------------------------------------------
(* Specifications *)

Init == InitMigrate /\ SearchOff /\ ViewerOff /\ PageOff

SpecMigrate == Init /\ [][NextMigrate]_vars

SpecRemigrate == Init /\ [][NextRemigrate]_vars

SpecCrash == Init /\ [][NextCrash]_vars

InitScripts == MigrateOff /\ InitSearch /\ ViewerOff /\ PageOff

SpecSearch == InitScripts /\ [][NextSearch]_vars

InitGenerate == MigrateOff /\ SearchOff /\ InitViewer /\ PageOff

SpecViewer == InitGenerate /\ [][NextViewer]_vars

InitBrowser == MigrateOff /\ SearchOff /\ ViewerOff /\ InitPage

SpecPage == InitBrowser /\ [][NextPage]_vars

====
